---- MODULE Spec2Model ----
(***************************************************************************)
(* One run of one of the repository's scripts against the remote chain and *)
(* the price-feed service.  Every network call of a script is one step;    *)
(* the value a call returns (or the exception it raises) is chosen by the  *)
(* environment.  A competing transaction of the same sender may land on    *)
(* the chain between any two steps.                                        *)
(***************************************************************************)
EXTENDS Integers, Sequences, FiniteSets, TLC

VARIABLES
    script,        \* which script is being run
    pc,            \* the step the run is at
    outcome,       \* "running", "success", "failure": what the run reported
    failKind,      \* why the run failed ("none" while it has not)
    exitCode,      \* process exit code, -1 while running
    envKey,        \* DEPLOYMENT_KEY (empty = unset)
    envWallet,     \* DEPLOYMENT_WALLET (empty = unset)
    envAddr,       \* the contract-address environment variable is set
    argKey,        \* --private-key (empty = not given)
    envPrivKey,    \* PRIVATE_KEY (empty = unset)
    lib,           \* attribute the signing library exposes on a signed transaction
    direction,     \* swap direction: TRUE = native asset in
    amount,        \* swap amount in smallest units
    chainNonce,    \* the sender's on-chain transaction count
    chainBalance,  \* the sender's on-chain balance
    oracleHasPrice,\* getPriceUnsafe succeeds on the oracle
    resp,          \* the feed service's response to the run's fetch
    updateData,    \* the update blob the fetch returned (0 = none)
    privateKey,    \* the key string the run signs with
    sender,        \* address of the loaded account (empty = none loaded)
    balance,       \* balance as read by the run (-1 = not read)
    fee,           \* fee quoted by getUpdateFee (-1 = not quoted)
    nonce,         \* nonce read by the run (-1 = not read)
    gasEstimate,   \* gas units chosen for the transaction (-1 = none)
    gasPrice,      \* gas price chosen for the transaction (-1 = none)
    tx,            \* the built transaction
    signedBy,      \* address of the key that signed tx (empty = unsigned)
    receipt,       \* "none", "success", "failure", "timeout"
    calls,         \* how many times each kind of network call was issued
    quote,         \* the price, conf and expo the feed service currently serves
    derived,       \* the price figures the run's fetcher computed
    hist,          \* observations about the run, written once, never read by it
    peer           \* a second run of the update from the same sender, if any

vars == <<script, pc, outcome, failKind, exitCode, envKey, envWallet, envAddr,
          argKey, envPrivKey, lib, direction, amount, chainNonce, chainBalance,
          oracleHasPrice, resp, updateData, privateKey, sender, balance, fee,
          nonce, gasEstimate, gasPrice, tx, signedBy, receipt, calls, quote,
          derived, hist, peer>>

inputs == <<script, envKey, envWallet, envAddr, argKey, envPrivKey, lib,
            direction, amount, quote>>

-----------------------------------------------------------------------------
(* Bounds of the model *)

MaxCompeting == 1   \* competing transactions of the same sender during a run

-----------------------------------------------------------------------------
(* Program constants *)

KeyHexLen == 64          \* "Private key should be 64 hex characters"
FallbackGas == 150000    \* fix-oracle.py: gas_estimate on estimation failure
GasBuffer == 50000       \* fix-oracle.py: 'gas': gas_estimate + 50000
SafeGasLimit == 200000   \* oracle-fix-working.py: 'gas': 200000
FixedGasLimit == 100000  \* updateSwapRouter.py: gas after a successful simulation
TestSwapValue == 2000    \* updateSwapRouter.py: value of the test swap (0.002 ether, in units of 10^12 wei)

-----------------------------------------------------------------------------
(* Strings are sequences of one-character strings *)

Rep(c, n) == [i \in 1..n |-> c]

HexDigitsLower == {"0", "1", "2", "3", "4", "5", "6", "7", "8", "9",
                   "a", "b", "c", "d", "e", "f"}
HexDigits == HexDigitsLower \cup {"A", "B", "C", "D", "E", "F"}
Whitespace == {" "}

LowerChar(c) ==
    CASE c = "A" -> "a" [] c = "B" -> "b" [] c = "C" -> "c"
      [] c = "D" -> "d" [] c = "E" -> "e" [] c = "F" -> "f"
      [] OTHER -> c

\* str.lower()
Lower(s) == [i \in 1..Len(s) |-> LowerChar(s[i])]

RECURSIVE LStrip(_)
LStrip(s) == IF s # <<>> /\ Head(s) \in Whitespace THEN LStrip(Tail(s)) ELSE s

RECURSIVE RStrip(_)
RStrip(s) ==
    IF s # <<>> /\ s[Len(s)] \in Whitespace
    THEN RStrip(SubSeq(s, 1, Len(s) - 1)) ELSE s

\* str.strip()
Strip(s) == RStrip(LStrip(s))

\* str.startswith('0x')
StartsWith0x(s) == Len(s) >= 2 /\ s[1] = "0" /\ s[2] = "x"

\* s[2:] when s starts with '0x', else s
Drop0x(s) == IF StartsWith0x(s) THEN SubSeq(s, 3, Len(s)) ELSE s

\* str.replace('0x', ''): every occurrence, left to right
RECURSIVE Replace0x(_)
Replace0x(s) ==
    IF s = <<>> THEN <<>>
    ELSE IF StartsWith0x(s) THEN Replace0x(SubSeq(s, 3, Len(s)))
    ELSE <<Head(s)>> \o Replace0x(Tail(s))

AllIn(s, set) == \A i \in 1..Len(s) : s[i] \in set

-----------------------------------------------------------------------------
(* The signing library: Account.from_key / sign_transaction(private_key=...) *)

\* The bytes a key string stands for, as hex digits: the 0x prefix goes, an
\* odd number of digits is left-padded with one zero.
KeyDigits(k) ==
    LET body == Drop0x(k)
    IN  IF Len(body) % 2 = 1 THEN <<"0">> \o body ELSE body

\* The library accepts the key: hex digits only, exactly 32 bytes.
KeyLoads(k) == AllIn(KeyDigits(k), HexDigits) /\ Len(KeyDigits(k)) = KeyHexLen

\* The address of the account a key string loads as.  The derivation is
\* one-way and collision free: the address stands for the key's bytes.
AddressOf(k) == <<"@">> \o Lower(KeyDigits(k))

NoString == <<>>

-----------------------------------------------------------------------------
(* The pool key and the swap parameters of uni-router.py *)

\* WETH_ADDRESS and USDC_ADDRESS (uni-router.py lines 36-37)
WethAddress ==
    <<"0", "x", "9", "8", "0", "B", "6", "2", "D", "a", "8", "3", "e", "F",
      "f", "3", "D", "4", "5", "7", "6", "C", "6", "4", "7", "9", "9", "3",
      "b", "0", "c", "1", "D", "7", "f", "a", "f", "1", "7", "c", "7", "3">>

UsdcAddress ==
    <<"0", "x", "7", "5", "f", "a", "f", "1", "1", "4", "e", "a", "f", "b",
      "1", "B", "D", "b", "e", "2", "F", "0", "3", "1", "6", "D", "F", "8",
      "9", "3", "f", "d", "5", "8", "C", "E", "4", "6", "A", "A", "4", "d">>

ZeroAddress == <<"0", "x">> \o Rep("0", 40)

\* to_checksum_address: the same digits in the casing of EIP-55; the two
\* token addresses are written in that casing already
ToChecksumAddress(a) ==
    CASE Lower(a) = Lower(WethAddress) -> WethAddress
      [] Lower(a) = Lower(UsdcAddress) -> UsdcAddress
      [] OTHER -> a

\* The characters of an address in code point order
CodePoints ==
    <<"0", "1", "2", "3", "4", "5", "6", "7", "8", "9",
      "A", "B", "C", "D", "E", "F", "a", "b", "c", "d", "e", "f", "x">>

CharCode(c) == CHOOSE i \in 1..Len(CodePoints) : CodePoints[i] = c

\* a < b on Python strings
RECURSIVE StrLess(_, _)
StrLess(a, b) ==
    IF b = <<>> THEN FALSE
    ELSE IF a = <<>> THEN TRUE
    ELSE IF Head(a) = Head(b) THEN StrLess(Tail(a), Tail(b))
    ELSE CharCode(Head(a)) < CharCode(Head(b))

NoPoolKey ==
    [currency0 |-> NoString, currency1 |-> NoString, fee |-> -1,
     tickSpacing |-> -1, hooks |-> NoString]

\* Variant: the pool key lists the token sold first
BuildPoolKeyUnsorted(eth_to_usd) ==
    [currency0 |-> IF eth_to_usd THEN WethAddress ELSE UsdcAddress,
     currency1 |-> IF eth_to_usd THEN UsdcAddress ELSE WethAddress,
     fee |-> 3000, tickSpacing |-> 60, hooks |-> ZeroAddress]

\* uni-router.py lines 149-170
build_pool_key(eth_to_usd) ==
    LET first == IF eth_to_usd THEN ToChecksumAddress(WethAddress)
                 ELSE ToChecksumAddress(UsdcAddress)
        second == IF eth_to_usd THEN ToChecksumAddress(UsdcAddress)
                  ELSE ToChecksumAddress(WethAddress)
        swapped == StrLess(Lower(second), Lower(first))
    IN  [currency0 |-> IF swapped THEN second ELSE first,
         currency1 |-> IF swapped THEN first ELSE second,
         fee |-> 3000, tickSpacing |-> 60, hooks |-> ZeroAddress]

NoSwapParams ==
    [zeroForOne |-> FALSE, amountSpecified |-> 0, sqrtPriceLimitX96 |-> -1]

\* Variant: WETH is taken to be currency0
BuildSwapParamsWethFirst(amount_wei, eth_to_usd) ==
    [zeroForOne |-> eth_to_usd, amountSpecified |-> -amount_wei,
     sqrtPriceLimitX96 |-> 0]

\* uni-router.py lines 172-192
build_swap_params(amount_wei, eth_to_usd) ==
    LET weth_checksum == ToChecksumAddress(WethAddress)
        usdc_checksum == ToChecksumAddress(UsdcAddress)
    IN  [zeroForOne |-> IF StrLess(Lower(weth_checksum), Lower(usdc_checksum))
                        THEN eth_to_usd ELSE ~eth_to_usd,
         amountSpecified |-> -amount_wei,
         sqrtPriceLimitX96 |-> 0]

-----------------------------------------------------------------------------
(* Numbers: Python integers of any size and IEEE-754 doubles *)

\* A natural number is the sequence of its digits in base LimbBase, least
\* significant first, without leading zeros; zero is the empty sequence.
LimbBits == 15
LimbBase == 32768
\* Bits of the significand of a double
MantissaBits == 53

RECURSIVE BigNorm(_)
BigNorm(a) ==
    IF a = <<>> THEN <<>>
    ELSE IF a[Len(a)] = 0 THEN BigNorm(SubSeq(a, 1, Len(a) - 1)) ELSE a

\* a * k + c for k, c < LimbBase
RECURSIVE BigMulAdd(_, _, _)
BigMulAdd(a, k, c) ==
    IF a = <<>> THEN (IF c = 0 THEN <<>> ELSE <<c>>)
    ELSE LET t == a[1] * k + c
         IN  <<t % LimbBase>> \o BigMulAdd(Tail(a), k, t \div LimbBase)

RECURSIVE BigAdd(_, _, _)
BigAdd(a, b, c) ==
    IF a = <<>> /\ b = <<>> THEN (IF c = 0 THEN <<>> ELSE <<c>>)
    ELSE LET x == IF a = <<>> THEN 0 ELSE a[1]
             y == IF b = <<>> THEN 0 ELSE b[1]
             t == x + y + c
         IN  <<t % LimbBase>>
               \o BigAdd(IF a = <<>> THEN <<>> ELSE Tail(a),
                         IF b = <<>> THEN <<>> ELSE Tail(b), t \div LimbBase)

RECURSIVE BigMul(_, _)
BigMul(a, b) ==
    IF a = <<>> \/ b = <<>> THEN <<>>
    ELSE BigNorm(BigAdd(BigMulAdd(a, b[1], 0), <<0>> \o BigMul(a, Tail(b)), 0))

RECURSIVE LimbToBits(_, _)
LimbToBits(x, n) ==
    IF n = 0 THEN <<>> ELSE <<x % 2>> \o LimbToBits(x \div 2, n - 1)

RECURSIVE TrimBits(_)
TrimBits(b) ==
    IF b = <<>> THEN <<>>
    ELSE IF b[Len(b)] = 0 THEN TrimBits(SubSeq(b, 1, Len(b) - 1)) ELSE b

RECURSIVE BitsOfLimbs(_)
BitsOfLimbs(a) ==
    IF a = <<>> THEN <<>> ELSE LimbToBits(a[1], LimbBits) \o BitsOfLimbs(Tail(a))

\* the binary digits of a, least significant first
BigBits(a) == TrimBits(BitsOfLimbs(a))

RECURSIVE BitsToInt(_)
BitsToInt(b) == IF b = <<>> THEN 0 ELSE b[1] + 2 * BitsToInt(Tail(b))

RECURSIVE BigOfBits(_)
BigOfBits(b) ==
    IF b = <<>> THEN <<>>
    ELSE IF Len(b) <= LimbBits THEN BigNorm(<<BitsToInt(b)>>)
    ELSE BigNorm(<<BitsToInt(SubSeq(b, 1, LimbBits))>>
                   \o BigOfBits(SubSeq(b, LimbBits + 1, Len(b))))

BigPow2(k) == BigOfBits([i \in 1..(k + 1) |-> IF i = k + 1 THEN 1 ELSE 0])

RECURSIVE BigPow10(_)
BigPow10(k) == IF k = 0 THEN <<1>> ELSE BigMulAdd(BigPow10(k - 1), 10, 0)

\* the number written with the decimal digits d, most significant first
RECURSIVE BigOfDigits(_)
BigOfDigits(d) ==
    IF d = <<>> THEN <<>>
    ELSE BigNorm(BigMulAdd(BigOfDigits(SubSeq(d, 1, Len(d) - 1)), 10, d[Len(d)]))

\* A double is m * 2^e.  The product of two doubles is the exact product
\* rounded to MantissaBits bits, to nearest, ties to even.
RoundToDouble(m, e) ==
    LET b == BigBits(m)
        k == Len(b) - MantissaBits
    IN  IF k <= 0 THEN [kind |-> "float", m |-> m, e |-> e]
        ELSE LET kept == SubSeq(b, k + 1, Len(b))
                 guard == b[k]
                 sticky == \E i \in 1..(k - 1) : b[i] = 1
                 up == guard = 1 /\ (sticky \/ kept[1] = 1)
                 q == BigOfBits(kept)
             IN  [kind |-> "float",
                  m |-> IF up THEN BigNorm(BigAdd(q, <<1>>, 0)) ELSE q,
                  e |-> e + k]

FloatMul(x, y) == RoundToDouble(BigMul(x.m, y.m), x.e + y.e)

\* float(n) of an integer n
FloatOfInt(n) == RoundToDouble(n, 0)

\* int(x) of a double x: truncation
FloatToInt(x) ==
    IF x.e >= 0 THEN BigMul(x.m, BigPow2(x.e))
    ELSE LET b == BigBits(x.m)
         IN  IF Len(b) <= -x.e THEN <<>>
             ELSE BigOfBits(SubSeq(b, 1 - x.e, Len(b)))

\* 10 ** expo for a negative integer expo: the double nearest to the power
Pow10Float(expo) ==
    CASE expo = -8 ->
           [kind |-> "float",
            m |-> BigOfDigits(<<3, 0, 2, 2, 3, 1, 4, 5, 4, 9, 0, 3, 6, 5, 7, 3>>),
            e |-> -78]
      [] expo = -2 ->
           [kind |-> "float",
            m |-> BigOfDigits(<<5, 7, 6, 4, 6, 0, 7, 5, 2, 3, 0, 3, 4, 2, 3, 5>>),
            e |-> -59]

\* A Python integer kept as it is
IntValue(n) == [kind |-> "int", m |-> n, e |-> 0]

\* x * y of an integer x and an integer or double y
NumMul(x, y) ==
    IF x.kind = "int" /\ y.kind = "int" THEN IntValue(BigMul(x.m, y.m))
    ELSE FloatMul(IF x.kind = "int" THEN FloatOfInt(x.m) ELSE x,
                  IF y.kind = "int" THEN FloatOfInt(y.m) ELSE y)

\* 10 ** expo
Pow10(expo) == IF expo >= 0 THEN IntValue(BigPow10(expo)) ELSE Pow10Float(expo)

\* int(x) of an integer or double x
NumToInt(x) == IF x.kind = "int" THEN x.m ELSE FloatToInt(x)

-----------------------------------------------------------------------------
(* The feed service's response and the scripts' fetchers *)

Blobs == {1, 2}

\* Kinds of the price, conf and expo fields of the parsed section: a numeric
\* string (what the service sends), another string, a JSON number
FieldCombos ==
    { <<"numstr", "numstr", "numstr">>,
      <<"nonnum", "numstr", "numstr">>,
      <<"numstr", "nonnum", "numstr">>,
      <<"numstr", "numstr", "nonnum">>,
      <<"jsonnum", "jsonnum", "numstr">> }

HttpError == [http |-> "error", binary |-> "absent", blob |-> 0,
              parsed |-> "absent", price |-> "absent", conf |-> "absent",
              expo |-> "absent"]

\* http: "ok" or "error" (timeout, connection failure, non-2xx status)
\* binary: "absent", "empty" ({"data": []}) or "ok" (data[0] = blob)
\* parsed: "absent", "empty" ([]), "no_price" ([{}]) or "ok" ([{price: {...}}])
Responses ==
    {HttpError} \cup
    { [http |-> "ok", binary |-> b, blob |-> 0, parsed |-> p,
       price |-> "absent", conf |-> "absent", expo |-> "absent"] :
         b \in {"absent", "empty"}, p \in {"absent", "empty", "no_price"} } \cup
    { [http |-> "ok", binary |-> "ok", blob |-> bl, parsed |-> p,
       price |-> "absent", conf |-> "absent", expo |-> "absent"] :
         bl \in Blobs, p \in {"absent", "empty", "no_price"} } \cup
    { [http |-> "ok", binary |-> b, blob |-> 0, parsed |-> "ok",
       price |-> f[1], conf |-> f[2], expo |-> f[3]] :
         b \in {"absent", "empty"}, f \in FieldCombos } \cup
    { [http |-> "ok", binary |-> "ok", blob |-> bl, parsed |-> "ok",
       price |-> f[1], conf |-> f[2], expo |-> f[3]] :
         bl \in Blobs, f \in FieldCombos }

NoResponse == [http |-> "none", binary |-> "absent", blob |-> 0,
               parsed |-> "absent", price |-> "absent", conf |-> "absent",
               expo |-> "absent"]

\* int(x) succeeds
IntParses(kind) == kind \in {"numstr", "jsonnum"}
\* x / 1e8 succeeds: a string operand raises TypeError
Divides(kind) == kind \in {"jsonnum", "absent"}

FetchFailed == [ok |-> FALSE, blob |-> 0]
Fetched(b) == [ok |-> TRUE, blob |-> b]
NotFetched == [ok |-> FALSE, blob |-> -1]

\* Variant: the fetcher hands back a blob whatever the service answered
FetchAlwaysReturns(r) == Fetched(r.blob)

\* fix-oracle.py fetch_hermes_data: the parsed section is only displayed;
\* a parse error there is printed and the blob is still returned.
FetchHermesData(r) ==
    IF r.http # "ok" THEN FetchFailed
    ELSE IF r.binary # "ok" THEN FetchFailed
    ELSE IF r.parsed = "empty" THEN FetchFailed
    ELSE Fetched(r.blob)

\* oracle-fix-working.py fetch_hermes_data: price and conf are divided by 1e8
\* as they come out of the JSON.
FetchHermesDataWorking(r) ==
    IF r.http # "ok" THEN FetchFailed
    ELSE IF r.binary # "ok" THEN FetchFailed
    ELSE IF r.parsed = "empty" THEN FetchFailed
    ELSE IF ~Divides(r.price) \/ ~Divides(r.conf) THEN FetchFailed
    ELSE Fetched(r.blob)

\* pythonUpdate.py fetch_eth_price: reads parsed price, expo, publish_time only.
FetchEthPrice(r) ==
    IF r.http # "ok" THEN FetchFailed
    ELSE IF r.parsed \in {"absent", "empty"} THEN FetchFailed
    ELSE IF r.parsed = "no_price" THEN FetchFailed
    ELSE IF ~IntParses(r.price) \/ ~IntParses(r.expo) THEN FetchFailed
    ELSE Fetched(0)

\* updateSwapRouter.py fetch_pyth_data: blob, then parsed price, expo, publish_time.
FetchPythData(r) ==
    IF r.http # "ok" THEN FetchFailed
    ELSE IF r.binary = "absent" \/ r.parsed \in {"absent", "empty"} THEN FetchFailed
    ELSE IF r.binary = "empty" THEN FetchFailed
    ELSE IF r.parsed = "no_price" THEN FetchFailed
    ELSE IF ~IntParses(r.price) \/ ~IntParses(r.expo) THEN FetchFailed
    ELSE Fetched(r.blob)

\* Variant: the fetcher returns the blob without looking at the parsed section
FetchBlobOnly(r) ==
    IF r.http # "ok" \/ r.binary # "ok" THEN FetchFailed ELSE Fetched(r.blob)

\* oracle-test.py fetch_pyth_hermes_price: blob, then price, expo, conf, publish_time.
FetchPythHermesPrice(r) ==
    IF r.http # "ok" THEN FetchFailed
    ELSE IF r.binary = "absent" \/ r.parsed \in {"absent", "empty"} THEN FetchFailed
    ELSE IF r.binary = "empty" THEN FetchFailed
    ELSE IF r.parsed = "no_price" THEN FetchFailed
    ELSE IF ~IntParses(r.price) \/ ~IntParses(r.expo) \/ ~IntParses(r.conf)
         THEN FetchFailed
    ELSE Fetched(r.blob)

\* uni-router.py / uni-router-fixed.py fetch_pyth_price: raises instead of
\* returning None; price, expo, conf are parsed before the blob is taken.
FetchPythPrice(r) ==
    IF r.http # "ok" THEN FetchFailed
    ELSE IF r.binary = "absent" \/ r.parsed \in {"absent", "empty"} THEN FetchFailed
    ELSE IF r.parsed = "no_price" THEN FetchFailed
    ELSE IF ~IntParses(r.price) \/ ~IntParses(r.expo) \/ ~IntParses(r.conf)
         THEN FetchFailed
    ELSE IF r.binary = "empty" THEN FetchFailed
    ELSE Fetched(r.blob)

FetchResult(s, r) ==
    CASE s = "fix_oracle" -> FetchHermesData(r)
      [] s = "oracle_fix_working" -> FetchHermesDataWorking(r)
      [] s = "python_update" -> FetchEthPrice(r)
      [] s \in {"swap_router_update", "swap_router_test_swap"} -> FetchPythData(r)
      [] s = "oracle_test" -> FetchPythHermesPrice(r)
      [] s \in {"uni_router", "uni_router_fixed"} -> FetchPythPrice(r)

\* int() of a string of decimal digits
DigitValue(c) ==
    CASE c = "0" -> 0 [] c = "1" -> 1 [] c = "2" -> 2 [] c = "3" -> 3
      [] c = "4" -> 4 [] c = "5" -> 5 [] c = "6" -> 6 [] c = "7" -> 7
      [] c = "8" -> 8 [] c = "9" -> 9

ParseInt(str) == BigOfDigits([i \in 1..Len(str) |-> DigitValue(str[i])])

\* price_raw * (10 ** expo)
ActualPrice(raw, expo) == NumMul(IntValue(raw), Pow10(expo))

\* pythonUpdate.py: price_in_cents = int(actual_price * 100)
PriceInCents(actual) == NumToInt(NumMul(actual, IntValue(<<100>>)))

\* The fetchers that scale the confidence as well
UsesConf(s) == s \in {"fix_oracle", "oracle_test", "uni_router", "uni_router_fixed"}

\* The fetcher computes the price figures: the parsed fields are there and
\* int() accepts them.  oracle-fix-working.py formats price / 1e8 inside a
\* print call and keeps nothing.
Derives(s, r) ==
    /\ s # "oracle_fix_working"
    /\ FetchResult(s, r).ok
    /\ r.parsed = "ok"
    /\ IntParses(r.price) /\ IntParses(r.expo)
    /\ UsesConf(s) => IntParses(r.conf)

NoNumber == IntValue(<<>>)
NotDerived == [computed |-> FALSE, price |-> NoNumber, conf |-> NoNumber,
               cents |-> <<>>]

DerivedPrice(s, q) ==
    LET actual == ActualPrice(ParseInt(q.price), q.expo)
    IN  [computed |-> TRUE,
         price |-> actual,
         conf |-> IF UsesConf(s) THEN ActualPrice(ParseInt(q.conf), q.expo)
                  ELSE NoNumber,
         cents |-> IF s = "python_update" THEN PriceInCents(actual) ELSE <<>>]

-----------------------------------------------------------------------------
(* The order of the steps of each script *)

Scripts == {"fix_oracle", "oracle_fix_working", "python_update",
            "swap_router_update", "swap_router_test_swap",
            "uni_router", "uni_router_fixed", "oracle_test"}

FlowFixOracle ==
    <<"validate", "read_initial", "fetch", "fee", "nonce", "estimate",
      "gas_price", "build", "balance_check", "sign", "broadcast", "wait",
      "verify", "done">>

FlowOracleFixWorking ==
    <<"validate", "read_initial", "fetch", "fee", "nonce", "gas_price",
      "build", "balance_check", "sign", "broadcast", "wait", "verify", "done">>

FlowPythonUpdate ==
    <<"fetch", "env_check", "connect", "load_account", "balance_read",
      "read_state", "nonce", "gas_price", "build", "estimate", "sign",
      "broadcast", "wait", "verify", "done">>

\* Variant: update_swap_router without the oracle address and fee queries
FlowSwapRouterUpdateUnchecked ==
    <<"fetch", "env_check", "connect", "load_account", "balance_read",
      "nonce", "gas_price", "build", "estimate", "simulate", "sign",
      "broadcast", "wait", "verify", "done">>

FlowSwapRouterUpdate ==
    <<"fetch", "env_check", "connect", "load_account", "balance_read",
      "oracle_addr", "fee", "nonce", "gas_price", "build", "estimate",
      "simulate", "sign", "broadcast", "wait", "verify", "done">>

FlowSwapRouterTestSwap ==
    <<"fetch", "env_check", "connect", "load_account", "nonce", "gas_price",
      "build", "estimate", "sign", "broadcast", "wait", "verify", "done">>

FlowUniRouter ==
    <<"connect", "validate", "load_account", "balance_read", "fetch",
      "amount_check", "estimate", "gas_price", "balance_check", "nonce",
      "build", "sign", "broadcast", "done">>

FlowUniRouterFixed ==
    <<"connect", "fetch", "validate", "load_account", "balance_read",
      "amount_check", "latest_block", "estimate", "gas_price",
      "balance_check", "nonce", "build", "sign", "broadcast", "done">>

FlowOracleTest ==
    <<"fetch", "env_check", "connect", "fee", "read_initial", "simulate", "done">>

Flow(s) ==
    CASE s = "fix_oracle" -> FlowFixOracle
      [] s = "oracle_fix_working" -> FlowOracleFixWorking
      [] s = "python_update" -> FlowPythonUpdate
      [] s = "swap_router_update" -> FlowSwapRouterUpdate
      [] s = "swap_router_test_swap" -> FlowSwapRouterTestSwap
      [] s = "uni_router" -> FlowUniRouter
      [] s = "uni_router_fixed" -> FlowUniRouterFixed
      [] s = "oracle_test" -> FlowOracleTest

IndexOf(seq, x) == CHOOSE i \in 1..Len(seq) : seq[i] = x

\* the step that follows step p when p completes normally
After(s, p) == Flow(s)[IndexOf(Flow(s), p) + 1]

-----------------------------------------------------------------------------
(* Inputs of a run and values the environment may return *)

KeyA == Rep("a", KeyHexLen)
KeyB == Rep("b", KeyHexLen)
Key0xA == <<"0", "x">> \o KeyA                  \* with the 0x prefix
KeySpaced == <<" ">> \o KeyA \o <<" ">>         \* surrounded by whitespace
KeyShort == Rep("a", KeyHexLen - 1)             \* 63 hex characters
KeyNonHex == Rep("a", KeyHexLen - 1) \o <<"g">> \* 64 characters, one not hex
\* 64 hex characters with "0x" in the middle
KeyInner0x == Rep("a", 32) \o <<"0", "x">> \o Rep("a", 32)

EnvKeys == {NoString, KeyA, Key0xA, KeySpaced, KeyShort, KeyNonHex}
Wallets == {NoString, AddressOf(KeyA), AddressOf(KeyB)}
Libs == {"raw_transaction", "rawTransaction"}

GasEstimates == {21000, 60000}
GasPrices == {1, 5}
Fees == {0, 1}
Balances == {0, 100000, 10000000}
Amounts == {1000, 90000}

\* What the feed serves: price and conf as strings of decimal digits, and the
\* exponent.  The specification's example: "300000000000" with expo -8.
ExamplePrice == <<"3">> \o Rep("0", 11)
ExampleConf == <<"1", "5">> \o Rep("0", 7)
QuoteFigures ==
    { <<ExamplePrice, ExampleConf>>,
      <<<<"2", "5", "0", "0", "1", "8">> \o Rep("0", 6), ExampleConf>>,
      <<<<"2">> \o Rep("9", 5) \o Rep("0", 6), <<"2", "9">> \o Rep("0", 6)>>,
      <<<<"1", "1", "6">> \o Rep("0", 6), <<"2", "9">> \o Rep("0", 6)>> }
QuoteExpos == {-8, -2, 0}
ExampleQuote == [price |-> ExamplePrice, conf |-> ExampleConf, expo |-> -8]
Quotes ==
    { [price |-> f[1], conf |-> f[2], expo |-> x] :
        f \in QuoteFigures, x \in QuoteExpos }

OracleScripts == {"fix_oracle", "oracle_fix_working"}
RouterScripts == {"swap_router_update", "swap_router_test_swap"}
EnvScripts == {"python_update"} \cup RouterScripts
SwapScripts == {"uni_router", "uni_router_fixed"}

NoTx == [built |-> FALSE, from |-> NoString, value |-> -1, gas |-> -1,
         gasPrice |-> -1, nonce |-> -1, blob |-> -1]

NoCalls == [net |-> 0, http |-> 0, fee |-> 0, estimate |-> 0, nonce |-> 0,
            sign |-> 0, broadcast |-> 0, wait |-> 0, read |-> 0,
            verify |-> 0]

\* The second run of update_price_feed: where it is, the nonce it read, what
\* its transaction costs, its receipt and what it reported. Absent when only
\* one run is in progress.
NoPeer ==
    [pc |-> "absent", nonce |-> -1, cost |-> 0, sent |-> FALSE,
     receipt |-> "none", outcome |-> "running"]

\* A second run that has reached update_price_feed
PeerStart == [NoPeer EXCEPT !.pc = "nonce"]

NoHist == [netAtKeyRejection |-> -1, chainNonceAtRead |-> -1,
           chainNonceAtBuild |-> -1, balanceAtBroadcast |-> -1,
           competing |-> 0, estimateFailed |-> FALSE, initialReadOk |-> FALSE,
           staleAtEnd |-> FALSE, feeBlob |-> -1, verifyReadOk |-> FALSE,
           marketGasPrice |-> -1, run |-> 0, prevBroadcasts |-> 0,
           oracleAddr |-> "unread",
           simulation |-> [result |-> "none", from |-> NoString, value |-> -1],
           poolKey |-> NoPoolKey, swapParams |-> NoSwapParams]

Init ==
    /\ script \in Scripts
    /\ pc = Flow(script)[1]
    /\ outcome = "running" /\ failKind = "none" /\ exitCode = -1
    /\ lib \in Libs
    /\ IF script \in OracleScripts
       THEN envKey \in EnvKeys /\ envWallet \in Wallets
       ELSE IF script \in EnvScripts
       THEN envKey \in {NoString, KeyA, Key0xA, KeyNonHex} /\ envWallet = NoString
       ELSE IF script \in SwapScripts
       THEN /\ envKey \in {NoString, Key0xA, KeyShort, KeyInner0x}
            /\ envWallet = NoString
       ELSE envKey = NoString /\ envWallet = NoString
    /\ IF script \in EnvScripts \cup {"oracle_test"}
       THEN envAddr \in BOOLEAN ELSE envAddr = TRUE
    /\ IF script \in SwapScripts
       THEN /\ argKey \in {NoString, KeyB}
            /\ envPrivKey \in {NoString, KeyB, KeyNonHex}
            /\ direction \in BOOLEAN
            /\ amount \in Amounts
       ELSE /\ argKey = NoString /\ envPrivKey = NoString
            /\ direction = FALSE /\ amount = 0
    /\ chainNonce = 0
    /\ chainBalance \in Balances
    /\ oracleHasPrice \in BOOLEAN
    /\ resp = NoResponse
    /\ updateData = NotFetched
    /\ privateKey = NoString /\ sender = NoString
    /\ balance = -1 /\ fee = -1 /\ nonce = -1
    /\ gasEstimate = -1 /\ gasPrice = -1
    /\ tx = NoTx /\ signedBy = NoString /\ receipt = "none"
    /\ calls = NoCalls
    /\ quote = ExampleQuote
    /\ derived = NotDerived
    /\ hist = NoHist
    /\ peer = NoPeer

\* Runs with good credentials and a funded sender, against every quote of the
\* feed
PriceInit ==
    /\ script \in Scripts
    /\ pc = Flow(script)[1]
    /\ outcome = "running" /\ failKind = "none" /\ exitCode = -1
    /\ lib \in Libs
    /\ IF script \in OracleScripts
       THEN envKey = KeyA /\ envWallet = AddressOf(KeyA)
       ELSE IF script = "oracle_test"
       THEN envKey = NoString /\ envWallet = NoString
       ELSE envKey = KeyA /\ envWallet = NoString
    /\ envAddr = TRUE
    /\ argKey = NoString /\ envPrivKey = NoString
    /\ IF script \in SwapScripts
       THEN direction = TRUE /\ amount \in Amounts
       ELSE direction = FALSE /\ amount = 0
    /\ chainNonce = 0
    /\ chainBalance = 10000000
    /\ oracleHasPrice = FALSE
    /\ resp = NoResponse
    /\ updateData = NotFetched
    /\ privateKey = NoString /\ sender = NoString
    /\ balance = -1 /\ fee = -1 /\ nonce = -1
    /\ gasEstimate = -1 /\ gasPrice = -1
    /\ tx = NoTx /\ signedBy = NoString /\ receipt = "none"
    /\ calls = NoCalls
    /\ quote \in Quotes
    /\ derived = NotDerived
    /\ hist = NoHist
    /\ peer = NoPeer

-----------------------------------------------------------------------------
(* How a run ends *)

\* Exit code of a failed run: fix-oracle.py and oracle-fix-working.py exit 1
\* only from the module-level checks; main() returns normally on every path.
FailureExitCode(s, kind) ==
    IF s \in OracleScripts /\ kind # "config" THEN 0 ELSE 1

Ends(result, kind) ==
    /\ pc' = "done"
    /\ outcome' = result
    /\ failKind' = kind
    /\ exitCode' = IF result = "success" THEN 0 ELSE FailureExitCode(script, kind)

Continues(p) ==
    /\ pc' = After(script, p)
    /\ UNCHANGED <<outcome, failKind, exitCode>>

Count(what) == [calls EXCEPT ![what] = @ + 1]
CountNet(what) == [calls EXCEPT ![what] = @ + 1, !.net = @ + 1]

-----------------------------------------------------------------------------
(* Credential checks *)

\* fix-oracle.py lines 46-48, oracle-fix-working.py lines 40-42
CleanKey(k) == Drop0x(Strip(k))

\* fix-oracle.py lines 34-71: both variables set, 64 hex characters after
\* cleaning, and the key's address equal to the configured wallet.
ValidFixOracle(k, w) ==
    /\ k # NoString
    /\ w # NoString
    /\ Len(CleanKey(k)) = KeyHexLen
    /\ AllIn(CleanKey(k), HexDigits)
    /\ KeyLoads(<<"0", "x">> \o CleanKey(k))
    /\ Lower(AddressOf(<<"0", "x">> \o CleanKey(k))) = Lower(w)

\* oracle-fix-working.py lines 28-64: no length or digit check of its own;
\* Account.from_key raises on a key the library does not accept.
ValidOracleFixWorking(k, w) ==
    /\ k # NoString
    /\ w # NoString
    /\ KeyLoads(<<"0", "x">> \o CleanKey(k))
    /\ Lower(AddressOf(<<"0", "x">> \o CleanKey(k))) = Lower(w)

\* uni-router.py lines 363-364 and 381-382
SwapKeyFormatOk(k) ==
    LET clean == Lower(Replace0x(k))
    IN  Len(clean) = KeyHexLen /\ AllIn(clean, HexDigitsLower)

\* uni-router.py lines 356-370: --private-key, else DEPLOYMENT_KEY when well
\* formed, else PRIVATE_KEY
SelectKey(arg, dk, pk) ==
    IF arg # NoString THEN arg
    ELSE IF dk # NoString /\ SwapKeyFormatOk(dk) THEN dk
    ELSE pk

ValidSwapKey(arg, dk, pk) ==
    /\ SelectKey(arg, dk, pk) # NoString
    /\ SwapKeyFormatOk(SelectKey(arg, dk, pk))

\* The start-up check of the credentials: the module-level code of the two
\* oracle scripts, the key selection in main() of the two swap scripts.
Validate ==
    /\ pc = "validate"
    /\ LET ok == CASE script = "fix_oracle" -> ValidFixOracle(envKey, envWallet)
                   [] script = "oracle_fix_working" ->
                        ValidOracleFixWorking(envKey, envWallet)
                   [] OTHER -> ValidSwapKey(argKey, envKey, envPrivKey)
       IN  IF ok
           THEN /\ Continues("validate")
                /\ privateKey' = IF script \in OracleScripts THEN envKey
                                 ELSE SelectKey(argKey, envKey, envPrivKey)
                /\ sender' = IF script \in OracleScripts
                             THEN AddressOf(<<"0", "x">> \o CleanKey(envKey))
                             ELSE sender
                /\ hist' = hist
           ELSE /\ Ends("failure", "config")
                /\ hist' = [hist EXCEPT !.netAtKeyRejection = calls.net]
                /\ UNCHANGED <<privateKey, sender>>
    /\ UNCHANGED <<inputs, peer, derived, chainNonce, chainBalance, oracleHasPrice, resp,
                   updateData, balance, fee, nonce, gasEstimate, gasPrice, tx,
                   signedBy, receipt, calls>>

\* pythonUpdate.py lines 302-311, updateSwapRouter.py lines 248-253 and
\* 383-388, oracle-test.py lines 188-193: required environment variables
EnvCheck ==
    /\ pc = "env_check"
    /\ IF (script \in EnvScripts /\ envKey = NoString) \/ ~envAddr
       THEN Ends("failure", "config")
       ELSE Continues("env_check")
    /\ UNCHANGED <<inputs, peer, derived, chainNonce, chainBalance, oracleHasPrice, resp,
                   updateData, privateKey, sender, balance, fee, nonce,
                   gasEstimate, gasPrice, tx, signedBy, receipt, calls, hist>>

\* get_web3_connection / the swap client's constructor: is_connected,
\* chain_id, block_number
Connect ==
    /\ pc = "connect"
    /\ calls' = CountNet("read")
    /\ \E ok \in BOOLEAN :
         IF ok THEN Continues("connect") ELSE Ends("failure", "network")
    /\ UNCHANGED <<inputs, peer, derived, chainNonce, chainBalance, oracleHasPrice, resp,
                   updateData, privateKey, sender, balance, fee, nonce,
                   gasEstimate, gasPrice, tx, signedBy, receipt, hist>>

\* Account.from_key inside the operation: pythonUpdate.py lines 320-324,
\* updateSwapRouter.py lines 260-264 and 395-399, uni-router.py lines 208-209
LoadAccount ==
    /\ pc = "load_account"
    /\ LET key == IF script \in SwapScripts THEN privateKey ELSE Drop0x(envKey)
       IN  IF KeyLoads(key)
           THEN /\ Continues("load_account")
                /\ privateKey' = key
                /\ sender' = AddressOf(key)
                /\ hist' = hist
           ELSE /\ Ends("failure", "config")
                /\ hist' = [hist EXCEPT !.netAtKeyRejection = calls.net]
                /\ UNCHANGED <<privateKey, sender>>
    /\ UNCHANGED <<inputs, peer, derived, chainNonce, chainBalance, oracleHasPrice, resp,
                   updateData, balance, fee, nonce, gasEstimate, gasPrice, tx,
                   signedBy, receipt, calls>>

\* main() returns at once when the first test_price_reading succeeds
\* (fix-oracle.py lines 358-360); oracle-test.py's getPriceUnsafe probe never
\* ends the run
\* Variant: main() goes on to fetch whatever the first read returned
InitialReadNeverEnds(s, readOk) == FALSE

\* Variant: main() returns after the first read whatever it returned
InitialReadAlwaysEnds(s, readOk) == s \in OracleScripts

\* Variant: main() returns after a first read that failed
InitialReadEndsOnFailure(s, readOk) == s \in OracleScripts /\ ~readOk

InitialReadEnds(s, readOk) == s \in OracleScripts /\ readOk

ReadInitial ==
    /\ pc = "read_initial"
    /\ calls' = CountNet("read")
    /\ \E rpcOk \in BOOLEAN :
         LET readOk == oracleHasPrice /\ rpcOk
         IN  /\ hist' = [hist EXCEPT !.initialReadOk = readOk]
             /\ IF InitialReadEnds(script, readOk)
                THEN Ends("success", "none")
                ELSE Continues("read_initial")
    /\ UNCHANGED <<inputs, peer, derived, chainNonce, chainBalance, oracleHasPrice, resp,
                   updateData, privateKey, sender, balance, fee, nonce,
                   gasEstimate, gasPrice, tx, signedBy, receipt>>

\* The request to the feed service and the handling of its response
Fetch ==
    /\ pc = "fetch"
    /\ calls' = CountNet("http")
    /\ \E r \in Responses :
         /\ resp' = r
         /\ derived' = IF Derives(script, r) THEN DerivedPrice(script, quote)
                        ELSE NotDerived
         /\ IF FetchResult(script, r).ok
            THEN /\ updateData' = FetchResult(script, r)
                 /\ Continues("fetch")
            ELSE /\ updateData' = FetchFailed
                 /\ Ends("failure", "feed")
    /\ UNCHANGED <<inputs, peer, chainNonce, chainBalance, oracleHasPrice,
                   privateKey, sender, balance, fee, nonce, gasEstimate,
                   gasPrice, tx, signedBy, receipt, hist>>

-----------------------------------------------------------------------------
(* Reads of the chain *)

\* getUpdateFee(update_data): fix-oracle.py line 264, oracle-fix-working.py
\* line 200, updateSwapRouter.py lines 301-307, oracle-test.py lines 213-218
Fee ==
    /\ pc = "fee"
    /\ calls' = CountNet("fee")
    /\ hist' = [hist EXCEPT !.feeBlob = updateData.blob]
    /\ \/ \E f \in Fees : fee' = f /\ Continues("fee")
       \/ /\ fee' = fee
          /\ IF script = "oracle_test"
             THEN Continues("fee") ELSE Ends("failure", "fee_query")
    /\ UNCHANGED <<inputs, peer, derived, chainNonce, chainBalance, oracleHasPrice,
                   resp, updateData, privateKey, sender, balance, nonce,
                   gasEstimate, gasPrice, tx, signedBy, receipt>>

\* w3.eth.get_transaction_count(sender)
Nonce ==
    /\ pc = "nonce"
    /\ calls' = CountNet("nonce")
    /\ \/ /\ nonce' = chainNonce
          /\ hist' = [hist EXCEPT !.chainNonceAtRead = chainNonce]
          /\ Continues("nonce")
       \/ /\ UNCHANGED <<nonce, hist>>
          /\ Ends("failure", "network")
    /\ UNCHANGED <<inputs, peer, derived, chainNonce, chainBalance, oracleHasPrice, resp,
                   updateData, privateKey, sender, balance, fee, gasEstimate,
                   gasPrice, tx, signedBy, receipt>>

\* int(x * 1.2)
Buffer12(x) == (x * 12) \div 10

\* The gas price the transaction is given: the market price in the oracle and
\* swap scripts, buffered by 1.2 in pythonUpdate.py and updateSwapRouter.py
ChosenGasPrice(s, market) ==
    IF s \in EnvScripts THEN Buffer12(market) ELSE market

\* w3.eth.gas_price
GasPrice ==
    /\ pc = "gas_price"
    /\ calls' = CountNet("read")
    /\ \/ \E gp \in GasPrices :
            /\ gasPrice' = ChosenGasPrice(script, gp)
            /\ hist' = [hist EXCEPT !.marketGasPrice = gp]
            /\ Continues("gas_price")
       \/ /\ gasPrice' = gasPrice
          /\ hist' = hist
          /\ Ends("failure", "network")
    /\ UNCHANGED <<inputs, peer, derived, chainNonce, chainBalance, oracleHasPrice, resp,
                   updateData, privateKey, sender, balance, fee, nonce,
                   gasEstimate, tx, signedBy, receipt>>

\* w3.eth.get_balance(sender) at the start of the operation; pythonUpdate.py
\* lines 329-334 and updateSwapRouter.py lines 269-276 stop on a zero balance
BalanceRead ==
    /\ pc = "balance_read"
    /\ calls' = CountNet("read")
    /\ \/ /\ balance' = chainBalance
          /\ IF script \in EnvScripts /\ chainBalance = 0
             THEN Ends("failure", "insufficient_funds")
             ELSE Continues("balance_read")
       \/ /\ balance' = balance
          /\ Ends("failure", "network")
    /\ UNCHANGED <<inputs, peer, derived, chainNonce, chainBalance, oracleHasPrice, resp,
                   updateData, privateKey, sender, fee, nonce, gasEstimate,
                   gasPrice, tx, signedBy, receipt, hist>>

\* pythonUpdate.py lines 346-352: getPrice/getSource before the update; a
\* failure is only reported
ReadState ==
    /\ pc = "read_state"
    /\ calls' = CountNet("read")
    /\ Continues("read_state")
    /\ UNCHANGED <<inputs, peer, derived, chainNonce, chainBalance, oracleHasPrice, resp,
                   updateData, privateKey, sender, balance, fee, nonce,
                   gasEstimate, gasPrice, tx, signedBy, receipt, hist>>

\* updateSwapRouter.py lines 289-293: the router's pythOracle address
OracleAddr ==
    /\ pc = "oracle_addr"
    /\ calls' = CountNet("read")
    /\ \E answer \in {"address", "zero", "error"} :
         /\ hist' = [hist EXCEPT !.oracleAddr = answer]
         /\ IF answer = "address" THEN Continues("oracle_addr")
            ELSE IF answer = "zero" THEN Ends("failure", "no_oracle")
            ELSE Ends("failure", "network")
    /\ UNCHANGED <<inputs, peer, derived, chainNonce, chainBalance, oracleHasPrice, resp,
                   updateData, privateKey, sender, balance, fee, nonce,
                   gasEstimate, gasPrice, tx, signedBy, receipt>>

\* uni-router-fixed.py lines 245-246: get_block('latest') for the deadline
LatestBlock ==
    /\ pc = "latest_block"
    /\ calls' = CountNet("read")
    /\ \E ok \in BOOLEAN :
         IF ok THEN Continues("latest_block") ELSE Ends("failure", "network")
    /\ UNCHANGED <<inputs, peer, derived, chainNonce, chainBalance, oracleHasPrice, resp,
                   updateData, privateKey, sender, balance, fee, nonce,
                   gasEstimate, gasPrice, tx, signedBy, receipt, hist>>

-----------------------------------------------------------------------------
(* Gas estimation *)

\* Variant: every script gives up when gas estimation fails
EstimateFailureAlwaysAborts(s) == "abort"

\* Variant: every script goes on with the fallback gas when estimation fails
EstimateFailureAlwaysFallsBack(s) == "fallback"

\* What a script does when gas estimation fails
EstimateFailurePolicy(s) ==
    CASE s = "fix_oracle" -> "fallback"
      [] s = "swap_router_update" -> "simulate"
      [] OTHER -> "abort"

\* estimate_gas: before the build in fix-oracle.py (lines 276-284) and the
\* swap scripts, on the built transaction in pythonUpdate.py (lines 369-380)
\* and updateSwapRouter.py (lines 319-351, 433-440)
Estimate ==
    /\ pc = "estimate"
    /\ \/ \E g \in GasEstimates :
            /\ calls' = CountNet("estimate")
            /\ hist' = hist
            /\ IF script \in EnvScripts
               THEN /\ tx' = [tx EXCEPT !.gas = Buffer12(g)]
                    /\ gasEstimate' = g
                    /\ pc' = "sign"
                    /\ UNCHANGED <<outcome, failKind, exitCode>>
               ELSE /\ gasEstimate' = g
                    /\ tx' = tx
                    /\ Continues("estimate")
       \/ /\ hist' = [hist EXCEPT !.estimateFailed = TRUE]
          /\ tx' = tx
          /\ CASE EstimateFailurePolicy(script) = "fallback" ->
                    /\ calls' = CountNet("estimate")
                    /\ gasEstimate' = FallbackGas
                    /\ Continues("estimate")
               [] EstimateFailurePolicy(script) = "simulate" ->
                    /\ calls' = CountNet("estimate")
                    /\ gasEstimate' = gasEstimate
                    /\ Continues("estimate")
               [] OTHER ->
                    \* uni-router.py lines 266-273 read the contract's code
                    \* before raising
                    /\ calls' = IF script = "uni_router"
                                THEN [CountNet("estimate") EXCEPT
                                        !.net = @ + 1, !.read = @ + 1]
                                ELSE CountNet("estimate")
                    /\ gasEstimate' = gasEstimate
                    /\ Ends("failure", "gas_estimation")
    /\ UNCHANGED <<inputs, peer, derived, chainNonce, chainBalance, oracleHasPrice, resp,
                   updateData, privateKey, sender, balance, fee, nonce,
                   gasPrice, signedBy, receipt>>

\* Variant: a simulated update that went through is written to the oracle
CallWrites(stored, ok) == stored \/ ok

\* What the oracle stores after function(...).call(...): the node runs the
\* function and discards its writes
AfterCall(stored, ok) == stored

\* Variant: the fixed gas limit is used whatever the simulated call gave
SimulationIgnored(ok) == TRUE

\* updateSwapRouter.py lines 328-351: the update goes on only when the
\* simulated call raised nothing
SimulationPasses(ok) == ok

\* updateSwapRouter.py lines 328-351: the simulated call after a failed
\* estimation; oracle-test.py lines 254-277: the simulated update, whose
\* failure is only reported
Simulate ==
    /\ pc = "simulate"
    /\ calls' = CountNet("read")
    /\ \E ok \in BOOLEAN :
         /\ oracleHasPrice' = AfterCall(oracleHasPrice, ok)
         /\ hist' = [hist EXCEPT !.simulation =
                        [result |-> IF ok THEN "ok" ELSE "failed",
                         from |-> sender, value |-> fee]]
         /\ IF script = "oracle_test"
            THEN /\ Ends("success", "none")
                 /\ tx' = tx
            ELSE IF SimulationPasses(ok)
            THEN /\ tx' = [tx EXCEPT !.gas = FixedGasLimit]
                 /\ Continues("simulate")
            ELSE /\ tx' = tx
                 /\ Ends("failure", "gas_estimation")
    /\ UNCHANGED <<inputs, peer, derived, chainNonce, chainBalance, resp,
                   updateData, privateKey, sender, balance, fee, nonce,
                   gasEstimate, gasPrice, signedBy, receipt>>

-----------------------------------------------------------------------------
(* Building, checking, signing and submitting the transaction *)

\* Variant: the transaction carries no payment
TxValueNone(s) == 0

\* 'value' of the transaction
TxValue(s) ==
    CASE s \in OracleScripts \cup {"swap_router_update"} -> fee
      [] s = "swap_router_test_swap" -> TestSwapValue
      [] s \in SwapScripts -> IF direction THEN amount ELSE 0
      [] OTHER -> 0

\* 'gas' of the transaction as first built
TxGas(s) ==
    CASE s = "fix_oracle" -> gasEstimate + GasBuffer
      [] s = "oracle_fix_working" -> SafeGasLimit
      [] s \in SwapScripts -> gasEstimate
      [] OTHER -> 0

\* Variant: the nonce is a fixed number instead of the count read
TxNonceFixed(read) == 0

\* 'nonce' of the transaction: the count the run read
TxNonce(read) == read

\* build_transaction({...})
Build ==
    /\ pc = "build"
    /\ tx' = [built |-> TRUE, from |-> sender, value |-> TxValue(script),
              gas |-> TxGas(script), gasPrice |-> gasPrice,
              nonce |-> TxNonce(nonce),
              blob |-> IF updateData.ok THEN updateData.blob ELSE 0]
    /\ hist' = [hist EXCEPT !.chainNonceAtBuild = chainNonce]
    /\ Continues("build")
    /\ UNCHANGED <<inputs, peer, derived, chainNonce, chainBalance, oracleHasPrice, resp,
                   updateData, privateKey, sender, balance, fee, nonce,
                   gasEstimate, gasPrice, signedBy, receipt, calls>>

\* transaction['gas'] * transaction['gasPrice'] + transaction['value']
Required(t) == t.gas * t.gasPrice + t.value

\* Variant: the swap amount is left out of what the balance must cover
SwapRequiredGasOnly(gas, price, amt, dir) == gas * price

\* What the swap scripts require of the balance read at the start
\* (uni-router.py lines 280-287)
SwapRequired(gas, price, amt, dir) ==
    IF dir THEN amt + gas * price ELSE gas * price

\* fix-oracle.py lines 303-311, oracle-fix-working.py lines 218-226: balance
\* read after the build and compared with the transaction's maximum cost;
\* uni-router.py lines 280-287: the balance read at the start compared with
\* amount + gas cost
BalanceCheck ==
    /\ pc = "balance_check"
    /\ IF script \in OracleScripts
       THEN /\ calls' = CountNet("read")
            /\ \/ /\ balance' = chainBalance
                  /\ IF chainBalance < Required(tx)
                     THEN Ends("failure", "insufficient_funds")
                     ELSE Continues("balance_check")
               \/ /\ balance' = balance
                  /\ Ends("failure", "network")
       ELSE /\ calls' = calls
            /\ balance' = balance
            /\ IF balance < SwapRequired(gasEstimate, gasPrice, amount, direction)
               THEN Ends("failure", "insufficient_funds")
               ELSE Continues("balance_check")
    /\ UNCHANGED <<inputs, peer, derived, chainNonce, chainBalance, oracleHasPrice, resp,
                   updateData, privateKey, sender, fee, nonce, gasEstimate,
                   gasPrice, tx, signedBy, receipt, hist>>

\* uni-router.py lines 219-226: the amount itself must be covered when the
\* native asset is the input
AmountCheck ==
    /\ pc = "amount_check"
    /\ IF direction /\ balance < amount
       THEN /\ Ends("failure", "insufficient_funds")
            /\ hist' = hist
       ELSE /\ Continues("amount_check")
            \* lines 234-235 of uni-router.py
            /\ hist' = IF script = "uni_router"
                       THEN [hist EXCEPT
                               !.poolKey = build_pool_key(direction),
                               !.swapParams =
                                   build_swap_params(amount, direction)]
                       ELSE hist
    /\ UNCHANGED <<inputs, peer, derived, chainNonce, chainBalance, oracleHasPrice, resp,
                   updateData, privateKey, sender, balance, fee, nonce,
                   gasEstimate, gasPrice, tx, signedBy, receipt, calls>>

\* The key a script hands to the signer
SigningKey(s) == privateKey

\* sign_transaction: the library loads the key and refuses a transaction
\* whose 'from' is not the key's address
Signs(key, t) == KeyLoads(key) /\ AddressOf(key) = t.from

\* Variant: the payload is signed with a key other than the one handed in
SignerOfOtherKey(key) == AddressOf(KeyB)

\* The address whose signature the signed transaction carries
SignerOf(key) == AddressOf(key)

Sign ==
    /\ pc = "sign"
    /\ calls' = Count("sign")
    /\ IF Signs(SigningKey(script), tx)
       THEN /\ signedBy' = SignerOf(SigningKey(script))
            /\ Continues("sign")
       ELSE /\ signedBy' = signedBy
            /\ Ends("failure", "signing")
    /\ UNCHANGED <<inputs, peer, derived, chainNonce, chainBalance, oracleHasPrice, resp,
                   updateData, privateKey, sender, balance, fee, nonce,
                   gasEstimate, gasPrice, tx, receipt, hist>>

\* The attribute a script reads the signed payload from
RawAttributeFound(s, l) ==
    CASE s = "fix_oracle" -> l = "raw_transaction"
      [] s \in {"oracle_fix_working"} \cup SwapScripts -> l = "rawTransaction"
      [] OTHER -> TRUE

\* The step after an accepted broadcast: the swap scripts return the hash
\* at once, every other script waits for the receipt
AfterBroadcast(s) == After(s, "broadcast")

\* send_raw_transaction(signed.raw_transaction)
Broadcast ==
    /\ pc = "broadcast"
    /\ IF ~RawAttributeFound(script, lib)
       THEN /\ Ends("failure", "signing")
            /\ UNCHANGED <<calls, hist>>
       ELSE /\ calls' = CountNet("broadcast")
            /\ hist' = [hist EXCEPT !.balanceAtBroadcast = chainBalance]
            /\ \/ /\ tx.nonce = chainNonce
                  /\ chainBalance >= Required(tx)
                  /\ IF AfterBroadcast(script) = "done"
                     THEN Ends("success", "none")
                     ELSE /\ pc' = AfterBroadcast(script)
                          /\ UNCHANGED <<outcome, failKind, exitCode>>
               \/ Ends("failure", "submission")
    /\ UNCHANGED <<inputs, peer, derived, chainNonce, chainBalance, oracleHasPrice, resp,
                   updateData, privateKey, sender, balance, fee, nonce,
                   gasEstimate, gasPrice, tx, signedBy, receipt>>

\* Variant: the run reads the state back whatever the receipt wait gave
AfterReceiptAlwaysVerifies(status) == "verify"

\* Variant: a run that got no successful receipt submits again
AfterReceiptResubmits(status) == IF status = "success" THEN "verify" ELSE "broadcast"

\* What the run does with the receipt wait's result
AfterReceipt(status) == IF status = "success" THEN "verify" ELSE "done"

\* The chain includes a transaction of the sender only when it carries the
\* account's current nonce
MineableAnyNonce(n) == n >= 0

Mineable(n) == n = chainNonce

\* wait_for_transaction_receipt(tx_hash, timeout=...): the transaction is
\* mined (status 1 or 0) unless its nonce was consumed meanwhile; the wait
\* may also time out
Wait ==
    /\ pc = "wait"
    /\ calls' = CountNet("wait")
    /\ \E status \in {"success", "failure", "timeout"} :
         /\ status # "timeout" => Mineable(tx.nonce)
         /\ receipt' = status
         /\ IF status = "timeout"
            THEN UNCHANGED <<chainNonce, chainBalance, oracleHasPrice>>
            ELSE /\ chainNonce' = chainNonce + 1
                 /\ chainBalance' = chainBalance - Required(tx)
                 /\ oracleHasPrice' =
                      IF status = "success" /\ script \in OracleScripts
                      THEN TRUE ELSE oracleHasPrice
         /\ IF AfterReceipt(status) = "done"
            THEN Ends("failure", "submission")
            ELSE /\ pc' = AfterReceipt(status)
                 /\ UNCHANGED <<outcome, failKind, exitCode>>
    /\ UNCHANGED <<inputs, peer, derived, resp, updateData, privateKey, sender, balance, fee,
                   nonce, gasEstimate, gasPrice, tx, signedBy, hist>>

\* After a successful receipt: fix-oracle.py lines 378-386 re-issue
\* test_price_reading and report by its result; pythonUpdate.py lines 400-405
\* and updateSwapRouter.py line 369 read the state back and succeed anyway
\* Variant: the read-back is only reported
VerificationNeverDecides(s) == FALSE

\* The result of the read-back decides how the run ends
VerificationDecides(s) == s \in OracleScripts

Verify ==
    /\ pc = "verify"
    /\ calls' = CountNet("verify")
    /\ \E rpcOk \in BOOLEAN :
         LET readOk == oracleHasPrice /\ rpcOk
         IN  /\ hist' = [hist EXCEPT !.verifyReadOk = readOk]
             /\ IF VerificationDecides(script) /\ ~readOk
                THEN Ends("failure", "verification")
                ELSE Ends("success", "none")
    /\ UNCHANGED <<inputs, peer, derived, chainNonce, chainBalance, oracleHasPrice,
                   resp, updateData, privateKey, sender, balance, fee, nonce,
                   gasEstimate, gasPrice, tx, signedBy, receipt>>

\* Another process sends a transaction from the same sender and it is mined
CompetingTx ==
    /\ pc # "done"
    /\ hist.competing < MaxCompeting
    /\ chainNonce' = chainNonce + 1
    /\ hist' = [hist EXCEPT !.competing = @ + 1]
    /\ UNCHANGED <<inputs, peer, derived, pc, outcome, failKind, exitCode, chainBalance,
                   oracleHasPrice, resp, updateData, privateKey, sender,
                   balance, fee, nonce, gasEstimate, gasPrice, tx, signedBy,
                   receipt, calls>>

Next ==
    \/ Validate \/ EnvCheck \/ Connect \/ LoadAccount \/ ReadInitial
    \/ Fetch \/ Fee \/ Nonce \/ GasPrice \/ BalanceRead \/ ReadState
    \/ OracleAddr \/ LatestBlock \/ Estimate \/ Simulate \/ Build
    \/ BalanceCheck \/ AmountCheck \/ Sign \/ Broadcast \/ Wait \/ Verify
    \/ CompetingTx

Spec == Init /\ [][Next]_vars

PriceSpec == PriceInit /\ [][Next]_vars

-----------------------------------------------------------------------------
(* The oracle update run again after it succeeded *)

MaxRuns == 1

\* Runs of fix-oracle.py and oracle-fix-working.py with good credentials and
\* a funded sender
RerunInit ==
    /\ script \in OracleScripts
    /\ pc = Flow(script)[1]
    /\ outcome = "running" /\ failKind = "none" /\ exitCode = -1
    /\ lib \in Libs
    /\ envKey = KeyA /\ envWallet = AddressOf(KeyA)
    /\ envAddr = TRUE
    /\ argKey = NoString /\ envPrivKey = NoString
    /\ direction = FALSE /\ amount = 0
    /\ chainNonce = 0
    /\ chainBalance = 10000000
    /\ oracleHasPrice \in BOOLEAN
    /\ resp = NoResponse
    /\ updateData = NotFetched
    /\ privateKey = NoString /\ sender = NoString
    /\ balance = -1 /\ fee = -1 /\ nonce = -1
    /\ gasEstimate = -1 /\ gasPrice = -1
    /\ tx = NoTx /\ signedBy = NoString /\ receipt = "none"
    /\ calls = NoCalls
    /\ quote = ExampleQuote
    /\ derived = NotDerived
    /\ hist = NoHist
    /\ peer = NoPeer

\* The script is started again right after a run that reported success: a
\* new process, with the chain as the previous run left it
Rerun ==
    /\ pc = "done" /\ outcome = "success"
    /\ hist.run < MaxRuns
    /\ pc' = Flow(script)[1]
    /\ outcome' = "running" /\ failKind' = "none" /\ exitCode' = -1
    /\ resp' = NoResponse
    /\ updateData' = NotFetched
    /\ privateKey' = NoString /\ sender' = NoString
    /\ balance' = -1 /\ fee' = -1 /\ nonce' = -1
    /\ gasEstimate' = -1 /\ gasPrice' = -1
    /\ tx' = NoTx /\ signedBy' = NoString /\ receipt' = "none"
    /\ calls' = NoCalls
    /\ derived' = NotDerived
    /\ hist' = [NoHist EXCEPT !.run = hist.run + 1,
                              !.prevBroadcasts = calls.broadcast]
    /\ UNCHANGED <<inputs, peer, chainNonce, chainBalance, oracleHasPrice>>

RerunNext ==
    \/ Validate \/ ReadInitial \/ Fetch \/ Fee \/ Nonce \/ Estimate
    \/ GasPrice \/ Build \/ BalanceCheck \/ Sign \/ Broadcast \/ Wait
    \/ Verify \/ Rerun

RerunSpec == RerunInit /\ [][RerunNext]_vars

-----------------------------------------------------------------------------
(* Two runs of fix-oracle.py at once, from the same sender *)

\* One run of fix-oracle.py with good credentials and a funded sender, and a
\* second run of it that has reached update_price_feed
RaceInit ==
    /\ script = "fix_oracle"
    /\ pc = Flow(script)[1]
    /\ outcome = "running" /\ failKind = "none" /\ exitCode = -1
    /\ lib \in Libs
    /\ envKey = KeyA /\ envWallet = AddressOf(KeyA)
    /\ envAddr = TRUE
    /\ argKey = NoString /\ envPrivKey = NoString
    /\ direction = FALSE /\ amount = 0
    /\ chainNonce = 0
    /\ chainBalance = 10000000
    /\ oracleHasPrice = FALSE
    /\ resp = NoResponse
    /\ updateData = NotFetched
    /\ privateKey = NoString /\ sender = NoString
    /\ balance = -1 /\ fee = -1 /\ nonce = -1
    /\ gasEstimate = -1 /\ gasPrice = -1
    /\ tx = NoTx /\ signedBy = NoString /\ receipt = "none"
    /\ calls = NoCalls
    /\ quote = ExampleQuote
    /\ derived = NotDerived
    /\ hist = NoHist
    /\ peer = PeerStart

peerFrame ==
    <<inputs, derived, pc, outcome, failKind, exitCode, resp, updateData,
      privateKey, sender, balance, fee, nonce, gasEstimate, gasPrice, tx,
      signedBy, receipt, calls, hist>>

\* The second run reads the nonce (line 273), then estimates gas, reads the
\* gas price and builds its transaction (lines 276-297), whose cost is
\* gas * gasPrice + value
PeerNonce ==
    /\ peer.pc = "nonce"
    /\ \E g \in GasEstimates \cup {FallbackGas}, p \in GasPrices, f \in Fees :
         peer' = [peer EXCEPT !.pc = "broadcast", !.nonce = chainNonce,
                              !.cost = (g + GasBuffer) * p + f]
    /\ UNCHANGED <<peerFrame, chainNonce, chainBalance, oracleHasPrice>>

\* The second run signs and calls send_raw_transaction (lines 315-318): the
\* node takes the transaction or refuses it, and a refusal ends the run by
\* the handler of lines 336-338
PeerBroadcast ==
    /\ peer.pc = "broadcast"
    /\ \/ /\ peer.nonce = chainNonce
          /\ chainBalance >= peer.cost
          /\ peer' = [peer EXCEPT !.pc = "wait", !.sent = TRUE]
       \/ peer' = [peer EXCEPT !.pc = "done", !.sent = TRUE,
                                !.outcome = "failure"]
    /\ UNCHANGED <<peerFrame, chainNonce, chainBalance, oracleHasPrice>>

\* The second run waits for its receipt (line 323) and, on status 1, reads
\* the price back (main, lines 378-386)
PeerWait ==
    /\ peer.pc = "wait"
    /\ \E status \in {"success", "failure", "timeout"}, readBack \in BOOLEAN :
         /\ status # "timeout" => Mineable(peer.nonce)
         /\ status # "success" => ~readBack
         /\ peer' = [peer EXCEPT
                        !.pc = "done", !.receipt = status,
                        !.outcome = IF readBack THEN "success" ELSE "failure"]
         /\ IF status = "timeout"
            THEN UNCHANGED <<chainNonce, chainBalance, oracleHasPrice>>
            ELSE /\ chainNonce' = chainNonce + 1
                 /\ chainBalance' = chainBalance - peer.cost
                 /\ oracleHasPrice' =
                      IF status = "success" THEN TRUE ELSE oracleHasPrice
    /\ UNCHANGED peerFrame

RaceNext ==
    \/ Validate \/ ReadInitial \/ Fetch \/ Fee \/ Nonce \/ Estimate
    \/ GasPrice \/ Build \/ BalanceCheck \/ Sign \/ Broadcast \/ Wait
    \/ Verify \/ PeerNonce \/ PeerBroadcast \/ PeerWait

RaceSpec == RaceInit /\ [][RaceNext]_vars

-----------------------------------------------------------------------------
(* Properties *)

\* C1: in fix-oracle.py and oracle-fix-working.py, a first getPriceUnsafe
\* read that succeeds ends the run as succeeded, with no feed request, fee
\* query, gas estimation, signing or broadcast.
C1_NoOpPath ==
    (script \in OracleScripts /\ hist.initialReadOk) =>
        /\ pc = "done" /\ outcome = "success"
        /\ calls.http = 0 /\ calls.fee = 0 /\ calls.estimate = 0
        /\ calls.sign = 0 /\ calls.broadcast = 0

C1_Witness ==
    /\ script \in OracleScripts /\ hist.initialReadOk
    /\ pc = "done" /\ calls.read = 1 /\ calls.net = 1

\* C2: on every submission path, send_raw_transaction is called only when
\* the sender's balance covers gas * gasPrice + value of the transaction.
C2_BalanceCoversCostAtBroadcast ==
    calls.broadcast > 0 => hist.balanceAtBroadcast >= Required(tx)

\* C3: every transaction handed to send_raw_transaction carries the
\* signature of the key whose address is its 'from'; in fix-oracle.py that
\* address is the configured DEPLOYMENT_WALLET.
C3_SignedBySender ==
    calls.broadcast > 0 =>
        /\ signedBy # NoString
        /\ signedBy = tx.from
        /\ script = "fix_oracle" => Lower(tx.from) = Lower(envWallet)

C3_Witness ==
    /\ calls.broadcast = 1 /\ script = "fix_oracle"
    /\ signedBy = AddressOf(KeyA) /\ envKey = Key0xA

\* C4: a key that is not 64 hex characters, or whose address differs from
\* the configured wallet, stops the run before any network call.
C4_KeyRejectedBeforeNetwork ==
    hist.netAtKeyRejection # -1 => hist.netAtKeyRejection = 0

\* C5, as the specification words it: on every update path a failed gas
\* estimation does not end the run.
C5_EstimationFailureNeverAborts ==
    (script \in {"fix_oracle", "python_update", "swap_router_update"}
        /\ hist.estimateFailed) => failKind # "gas_estimation"

\* C5, as the code behaves: in fix-oracle.py a failed gas estimation does
\* not end the run; the transaction is built with the fallback gas plus the
\* buffer.  In pythonUpdate.py the run ends there and nothing is broadcast.  In
\* updateSwapRouter.py the update is signed with the fixed gas limit after a
\* successful simulated call and ends otherwise.  oracle-fix-working.py
\* never estimates and builds with its fixed limit.
C5_FallbackInFixOracle ==
    /\ (script = "fix_oracle" /\ hist.estimateFailed) =>
          /\ failKind # "gas_estimation"
          /\ gasEstimate = FallbackGas
          /\ tx.built => tx.gas = FallbackGas + GasBuffer
    /\ (script = "python_update" /\ hist.estimateFailed) =>
          /\ pc = "done" /\ failKind = "gas_estimation"
          /\ calls.sign = 0 /\ calls.broadcast = 0
    /\ (script = "swap_router_update" /\ hist.estimateFailed) =>
          /\ calls.sign > 0 => tx.gas = FixedGasLimit
          /\ failKind = "gas_estimation" =>
                (pc = "done" /\ calls.sign = 0 /\ calls.broadcast = 0)
    /\ script = "oracle_fix_working" =>
          (calls.estimate = 0 /\ (tx.built => tx.gas = SafeGasLimit))

C5_Witness ==
    /\ script = "fix_oracle" /\ hist.estimateFailed
    /\ calls.sign = 1 /\ calls.broadcast = 1
    /\ tx.gas = FallbackGas + GasBuffer

\* C6: a finished run has exit code 0 exactly when it succeeded.
C6_ExitCodeReportsOutcome ==
    pc = "done" => (exitCode = 0 <=> outcome = "success")

\* C7: no run that broadcast a transaction reports success without a
\* receipt of status success.
C7_SuccessOnlyAfterReceipt ==
    (outcome = "success" /\ calls.broadcast > 0) =>
        (calls.wait > 0 /\ receipt = "success")

\* C8: in one run the feed request, the fee query, the gas estimation and
\* the broadcast are each issued at most once.
C8_NoRetry ==
    /\ calls.http <= 1 /\ calls.fee <= 1
    /\ calls.estimate <= 1 /\ calls.broadcast <= 1

C8_Witness ==
    /\ pc = "done" /\ outcome = "failure" /\ failKind = "submission"
    /\ receipt = "timeout"
    /\ calls.http = 1 /\ calls.fee = 1 /\ calls.estimate = 1
    /\ calls.broadcast = 1

\* The nonce of the built transaction was consumed by another transaction
NonceConsumed ==
    tx.built /\ receipt \notin {"success", "failure"} /\ chainNonce > tx.nonce

\* C9, as the specification words it: the nonce of a built transaction is
\* the on-chain count at the moment of the build.
C9_NonceCurrentAtBuild ==
    tx.built => tx.nonce = hist.chainNonceAtBuild

\* C9, as the code behaves: the nonce of a built transaction is the
\* on-chain count the run's one get_transaction_count call returned; a run that ends with that
\* nonce consumed by a competing transaction ends in failure, having read
\* the nonce once and broadcast at most once.
C9_NonceAsRead ==
    /\ tx.built => tx.nonce = hist.chainNonceAtRead
    /\ calls.nonce <= 1
    /\ (pc = "done" /\ NonceConsumed) =>
          (outcome = "failure" /\ calls.broadcast <= 1)

C9_Witness ==
    /\ pc = "done" /\ NonceConsumed /\ hist.competing = 1
    /\ tx.nonce = hist.chainNonceAtRead
    /\ calls.broadcast = 1 /\ failKind = "submission"

LacksBinary(r) == r.http = "ok" /\ r.binary = "absent"
LacksParsed(r) == r.http = "ok" /\ r.parsed = "absent"
NonNumeric(r) == r.http = "ok" /\ "nonnum" \in {r.price, r.conf, r.expo}
Malformed(r) == LacksBinary(r) \/ LacksParsed(r) \/ NonNumeric(r)

\* C10, as the specification words it: every fetcher fails on a response
\* without the binary section, without the parsed section, or with a non-numeric price, conf
\* or expo.
C10_MalformedResponseFails ==
    (calls.http > 0 /\ Malformed(resp)) => ~updateData.ok

\* C10, as the code behaves: a failed fetch ends the run before any fee
\* query or broadcast.  A response without the binary section fails every fetcher
\* that returns the blob.  oracle-test.py and the uni-router scripts fail on
\* every malformed response; pythonUpdate.py and updateSwapRouter.py fail on
\* a missing parsed section and a non-numeric price or expo; fix-oracle.py
\* returns the blob whenever the binary section is there and the parsed
\* section is not an empty list.
C10_FetchFailures ==
    calls.http > 0 =>
        /\ ~updateData.ok =>
              (pc = "done" /\ outcome = "failure" /\ calls.fee = 0
                 /\ calls.broadcast = 0)
        /\ (script # "python_update" /\ LacksBinary(resp)) => ~updateData.ok
        /\ (script \in {"oracle_test"} \cup SwapScripts /\ Malformed(resp)) =>
              ~updateData.ok
        /\ (script \in EnvScripts
              /\ (LacksParsed(resp) \/ resp.price = "nonnum"
                    \/ resp.expo = "nonnum")) => ~updateData.ok
        /\ (script = "fix_oracle" /\ resp.binary = "ok"
              /\ resp.parsed # "empty") =>
              (updateData.ok /\ updateData.blob = resp.blob)

C10_Witness ==
    /\ script = "oracle_test" /\ calls.http = 1
    /\ resp.binary = "ok" /\ resp.parsed = "ok" /\ resp.conf = "nonnum"
    /\ ~updateData.ok /\ pc = "done" /\ failKind = "feed"

\* The number x is raw * 10^expo
IsExactly(x, raw, expo) ==
    IF expo >= 0 THEN x.kind = "int" /\ x.m = BigMul(raw, BigPow10(expo))
    ELSE IF x.e >= 0
         THEN BigMul(BigMul(x.m, BigPow2(x.e)), BigPow10(-expo)) = raw
         ELSE BigMul(x.m, BigPow10(-expo)) = BigMul(raw, BigPow2(-x.e))

\* C11: the price a fetcher derives is rawPrice * 10^expo exactly, and the
\* confidence it derives is conf * 10^expo exactly.
C11_DerivedPriceExact ==
    derived.computed =>
        /\ IsExactly(derived.price, ParseInt(quote.price), quote.expo)
        /\ UsesConf(script) =>
              IsExactly(derived.conf, ParseInt(quote.conf), quote.expo)

\* C12: a swap is signed and broadcast only if the balance the run read
\* covers amount + gasEstimate * gasPrice when the native asset is the
\* input, and gasEstimate * gasPrice otherwise; a run stopped for
\* insufficient funds has signed and broadcast nothing.
C12_SwapBalanceCovers ==
    script \in SwapScripts =>
        /\ calls.sign > 0 =>
              balance >= (IF direction THEN amount ELSE 0)
                           + gasEstimate * gasPrice
        /\ failKind = "insufficient_funds" =>
              (pc = "done" /\ calls.sign = 0 /\ calls.broadcast = 0)

C12_Witness ==
    /\ script = "uni_router" /\ direction
    /\ gasEstimate # -1 /\ gasPrice # -1
    /\ balance >= gasEstimate * gasPrice
    /\ balance < amount + gasEstimate * gasPrice
    /\ pc = "done" /\ failKind = "insufficient_funds"

\* 64 hex characters after an optional 0x prefix
KeyWellFormed(k) ==
    Len(Drop0x(k)) = KeyHexLen /\ AllIn(Drop0x(k), HexDigits)

\* --private-key, else a well-formed DEPLOYMENT_KEY, else PRIVATE_KEY
KeyInOrder ==
    IF argKey # NoString THEN argKey
    ELSE IF KeyWellFormed(envKey) THEN envKey
    ELSE envPrivKey

\* C13: the key a swap script hands to execute_swap is the first of
\* --private-key, a well-formed DEPLOYMENT_KEY and PRIVATE_KEY, and it is 64
\* hex characters after an optional 0x prefix; with no such key the script
\* exits with code 1 and execute_swap is not called.
C13_KeySelectionOrder ==
    script \in SwapScripts =>
        /\ privateKey # NoString =>
              (privateKey = KeyInOrder /\ KeyWellFormed(privateKey))
        /\ (pc = "done" /\ ~KeyWellFormed(KeyInOrder)) =>
              (exitCode = 1 /\ privateKey = NoString)

\* C14: under either attribute name of the signing library, a run that has
\* signed its transaction goes on to broadcast it.
C14_SignedPayloadIsBroadcast ==
    (pc = "done" /\ signedBy # NoString) => calls.broadcast = 1

\* C15: in fix-oracle.py and oracle-fix-working.py a first getPriceUnsafe
\* read that fails, by a revert or by any other exception, leaves the run
\* going: the next step is the feed request.
C15_FailedInitialReadAdvances ==
    [][(script \in OracleScripts /\ pc = "read_initial" /\ pc' # pc
          /\ ~hist'.initialReadOk)
         => (pc' = "fetch" /\ outcome' = "running")]_vars

\* a first read that failed although the oracle holds a price
C15_Witness ==
    /\ script \in OracleScripts /\ pc = "fetch"
    /\ calls.read = 1 /\ ~hist.initialReadOk /\ oracleHasPrice

\* C16: in fix-oracle.py and oracle-fix-working.py a failed feed fetch (the
\* request fails, the binary section is missing, or the fetcher returns
\* nothing) ends the run in failure for the feed, and no fee query, signing,
\* broadcast or second price read has been issued.
C16_FetchFailureIsTerminal ==
    (script \in OracleScripts /\ calls.http > 0
        /\ (resp.http # "ok" \/ resp.binary # "ok" \/ ~updateData.ok)) =>
        /\ pc = "done" /\ outcome = "failure" /\ failKind = "feed"
        /\ calls.fee = 0 /\ calls.sign = 0 /\ calls.broadcast = 0
        /\ calls.read = 1

C16_Witness ==
    /\ script = "fix_oracle" /\ calls.http = 1 /\ resp.http = "error"
    /\ pc = "done" /\ failKind = "feed"

\* A response as the service sends it: the blob is there and price, conf and
\* expo are numeric strings
WellFormed(r) ==
    /\ r.http = "ok" /\ r.binary = "ok" /\ r.parsed = "ok"
    /\ r.price = "numstr" /\ r.conf = "numstr" /\ r.expo = "numstr"

\* C17: in fix-oracle.py and oracle-fix-working.py the fetch of a
\* well-formed response succeeds with the response's blob, and the run goes
\* on to call getUpdateFee with that blob.
C17_WellFormedResponseReachesFee ==
    (script \in OracleScripts /\ calls.http > 0 /\ WellFormed(resp)) =>
        /\ updateData.ok /\ updateData.blob = resp.blob
        /\ failKind # "feed"
        /\ pc = "done" => calls.fee = 1
        /\ calls.fee > 0 => hist.feeBlob = resp.blob

\* C18: in the oracle scripts and update_swap_router a built transaction
\* carries as value the fee that the run's getUpdateFee call returned for the
\* blob the transaction submits; the fee was queried before the build.
C18_ValueIsQuotedFee ==
    (script \in OracleScripts \cup {"swap_router_update"} /\ tx.built) =>
        /\ calls.fee = 1 /\ fee # -1
        /\ tx.value = fee
        /\ tx.blob = hist.feeBlob

C18_Witness ==
    /\ script = "swap_router_update" /\ tx.built
    /\ fee = 1 /\ tx.value = 1 /\ tx.blob = 2 /\ hist.feeBlob = 2

\* C19: in fix-oracle.py and oracle-fix-working.py a submission that fails
\* (signing or broadcasting raises, the receipt wait times out, or the
\* receipt reports failure) ends the run in failure for the submission, and
\* the verification read is issued only after a receipt of status success.
C19_FailedSubmissionSkipsVerification ==
    script \in OracleScripts =>
        /\ (pc = "done" /\ calls.sign > 0 /\ receipt # "success") =>
              /\ outcome = "failure"
              /\ failKind \in {"signing", "submission"}
              /\ calls.verify = 0
        /\ calls.verify > 0 => receipt = "success"

C19_Witness ==
    /\ script = "fix_oracle" /\ pc = "done"
    /\ calls.broadcast = 1 /\ calls.wait = 1 /\ receipt = "failure"
    /\ failKind = "submission" /\ calls.verify = 0

\* C20: in fix-oracle.py and oracle-fix-working.py a run whose receipt
\* reports success reads the price once more, exactly once, and ends as
\* succeeded when that read succeeds and in failure for the verification
\* when it does not.
C20_VerificationDecidesOutcome ==
    script \in OracleScripts =>
        /\ calls.verify <= 1
        /\ (pc = "done" /\ receipt = "success") =>
              /\ calls.verify = 1
              /\ hist.verifyReadOk => outcome = "success"
              /\ ~hist.verifyReadOk =>
                    (outcome = "failure" /\ failKind = "verification")

C20_Witness ==
    /\ script = "oracle_fix_working" /\ pc = "done" /\ receipt = "success"
    /\ calls.verify = 1 /\ ~hist.verifyReadOk /\ failKind = "verification"

Mined == {"success", "failure"}

\* C21: two runs of the update from one sender are not coordinated: both can
\* read the same nonce and both broadcast a transaction carrying it; of two
\* such transactions at most one is included on-chain, and once both runs
\* have ended at least one of them has reported failure.
C21_SameNonceRace ==
    (calls.broadcast > 0 /\ peer.sent /\ tx.nonce = peer.nonce) =>
        /\ ~(receipt \in Mined /\ peer.receipt \in Mined)
        /\ (pc = "done" /\ peer.pc = "done") =>
               (outcome = "failure" \/ peer.outcome = "failure")

C21_Witness ==
    /\ calls.broadcast > 0 /\ peer.sent /\ tx.nonce = peer.nonce
    /\ pc = "done" /\ peer.pc = "done"
    /\ (receipt \in Mined) # (peer.receipt \in Mined)
    /\ (outcome = "success") # (peer.outcome = "success")

\* C22: in uni-router.py and uni-router-fixed.py a failed gas estimation ends
\* the swap in failure for that reason: no gas value stands in for the
\* estimate, no transaction is built, signed or broadcast.
C22_SwapEstimationFailureAborts ==
    (script \in SwapScripts /\ hist.estimateFailed) =>
        /\ pc = "done" /\ outcome = "failure"
        /\ failKind = "gas_estimation"
        /\ gasEstimate = -1 /\ ~tx.built
        /\ calls.sign = 0 /\ calls.broadcast = 0

C22_Witness ==
    /\ script \in SwapScripts /\ hist.estimateFailed
    /\ pc = "done" /\ failKind = "gas_estimation"
    /\ calls.estimate = 1 /\ calls.broadcast = 0

\* C23: every broadcast transaction carries the market gas price read in
\* that run buffered by 1.2 (no script submits with a fixed configured gas
\* price, so the buffered price is the only one the policy allows here).
C23_GasPriceBuffered ==
    calls.broadcast > 0 => tx.gasPrice = Buffer12(hist.marketGasPrice)

C25_SecondRunIsNoOp ==
    hist.run > 0 =>
        /\ oracleHasPrice
        /\ hist.initialReadOk =>
              /\ pc = "done" /\ outcome = "success"
              /\ calls.http = 0 /\ calls.broadcast = 0
              /\ hist.prevBroadcasts + calls.broadcast <= 1

C25_Witness ==
    /\ hist.run = 1 /\ hist.initialReadOk /\ pc = "done"
    /\ hist.prevBroadcasts = 1 /\ calls.broadcast = 0 /\ calls.read = 1

\* C26: update_swap_router broadcasts only after pythOracle() was read as a
\* non-zero address and getUpdateFee succeeded; a zero oracle address, a
\* failed fee query, a missing environment variable or a zero balance ends
\* it in failure with nothing signed or broadcast.
C26_RouterUpdatePreconditions ==
    script = "swap_router_update" =>
        /\ calls.broadcast > 0 =>
              (hist.oracleAddr = "address" /\ calls.fee = 1 /\ fee \in Fees)
        /\ hist.oracleAddr = "zero" => failKind = "no_oracle"
        /\ (calls.fee = 1 /\ pc # "fee" /\ fee \notin Fees) =>
              failKind = "fee_query"
        /\ balance = 0 => failKind = "insufficient_funds"
        /\ (envKey = NoString \/ ~envAddr) =>
              (pc \in {"fetch", "env_check"} \/ outcome = "failure")
        /\ failKind \in {"no_oracle", "fee_query", "config",
                          "insufficient_funds"} =>
              /\ pc = "done" /\ outcome = "failure"
              /\ calls.sign = 0 /\ calls.broadcast = 0

C26_Witness ==
    /\ script = "swap_router_update" /\ calls.broadcast = 1
    /\ hist.oracleAddr = "address" /\ fee \in Fees /\ balance > 0

\* C27: in update_swap_router, after a failed gas estimation the update is
\* signed and sent, with the fixed gas limit of 100000, only when a simulated
\* call of updateBytes from the same sender with the same fee succeeded; when
\* the simulation fails too, the update ends in failure with nothing
\* broadcast.
C27_FixedGasOnlyAfterSimulation ==
    (script = "swap_router_update" /\ hist.estimateFailed) =>
        /\ calls.sign > 0 =>
              /\ hist.simulation.result = "ok"
              /\ hist.simulation.from = tx.from
              /\ hist.simulation.value = tx.value
              /\ tx.gas = FixedGasLimit
        /\ hist.simulation.result = "failed" =>
              /\ pc = "done" /\ outcome = "failure"
              /\ calls.sign = 0 /\ calls.broadcast = 0

C27_Witness ==
    /\ script = "swap_router_update" /\ hist.estimateFailed
    /\ hist.simulation.result = "ok" /\ calls.broadcast = 1
    /\ tx.gas = FixedGasLimit

\* C28: build_pool_key returns the same pool key for both swap directions:
\* currency0 strictly below currency1 as lower-case strings, fee 3000, tick
\* spacing 60, the zero address as hooks.
C28_PoolKeyCanonical ==
    hist.poolKey # NoPoolKey =>
        /\ hist.poolKey = build_pool_key(~direction)
        /\ StrLess(Lower(hist.poolKey.currency0),
                   Lower(hist.poolKey.currency1))
        /\ {hist.poolKey.currency0, hist.poolKey.currency1} =
              {WethAddress, UsdcAddress}
        /\ hist.poolKey.fee = 3000 /\ hist.poolKey.tickSpacing = 60
        /\ hist.poolKey.hooks = ZeroAddress

C28_Witness ==
    /\ script = "uni_router" /\ ~direction /\ pc = "estimate"
    /\ hist.poolKey.currency0 = UsdcAddress

SoldToken == IF direction THEN WethAddress ELSE UsdcAddress

\* C29: build_swap_params returns the negated input amount as
\* amountSpecified, and zeroForOne is true exactly when the token sold (WETH
\* for ETH to USD, USDC for USD to ETH) is currency0 of the pool key of the
\* same direction.
C29_SwapParamsMatchPoolKey ==
    hist.poolKey # NoPoolKey =>
        /\ hist.swapParams.amountSpecified = -amount
        /\ hist.swapParams.zeroForOne <=>
              (SoldToken = build_pool_key(direction).currency0)

C29_Witness ==
    /\ script = "uni_router" /\ direction /\ pc = "estimate"
    /\ hist.swapParams.amountSpecified < 0 /\ ~hist.swapParams.zeroForOne

\* C30: in fix-oracle.py the key handed to sign_transaction is the key that
\* passed the start-up validation (whitespace stripped, 0x prefix removed,
\* 64 hex characters): it loads, and it has the digits that were validated.
C30_ValidatedKeySigns ==
    (script = "fix_oracle" /\ calls.sign > 0) =>
        /\ KeyLoads(SigningKey(script))
        /\ Lower(KeyDigits(SigningKey(script))) = Lower(CleanKey(envKey))

====
